---- MODULE Spec2Model ----
(***************************************************************************)
(* Tiered embedding store and similarity search of the multi-model image   *)
(* search server: the primary store (server/core/db_service.py, tables of  *)
(* server/core/models.py), the remote REST tier and the local cache tier   *)
(* of a model manager (server/models/base_model.py) and the search         *)
(* endpoint (server/unified_server.py).                                    *)
(*                                                                         *)
(* Vectors are sequences of integers in units of 1/5: a unit vector has    *)
(* norm 5 (<<5,0>>, <<3,4>>), and a similarity is kept in units of 1/25,   *)
(* so 25 is the similarity 1.0 and -25 the similarity -1.0.                *)
(***************************************************************************)
EXTENDS Integers, Sequences, FiniteSets, TLC

\* ---------------------------------------------------------------- bounds
MaxK == 2
MaxRows == 2
MaxStores == 2
MaxMigrations == 2

\* ------------------------------------------------------------ data domain
ImageIds == {1, 2}
ModelNames == {"clip", "eva02"}
TopKs == -1..MaxK
Queries == {"right", "diag"}

\* the keys of model_managers, and the names a request may carry
model_managers == ModelNames
\* self.model_name of the manager registered under key m: CLIPModelManager passes
\* model_name="clip", EVA02ModelManager model_name="EVA02" (DFN5BModelManager
\* likewise "DFN5B" under the key "dfn5b")
ManagerModelName(m) == IF m = "eva02" THEN "EVA02" ELSE m
\* generate_embeddings.py stores under the keys of its own self.models
GeneratorModelName(m) == m
\* migrate_embeddings.py stores under the keys of its cache_files
MigrationModelName(m) == m
\* the values column model_name may hold
StoredNames == ModelNames \cup {ManagerModelName(m) : m \in ModelNames}
RequestModels == ModelNames \cup {"siglip"}
\* a query that request.query.strip() leaves empty
BlankQuery == " "
RequestQueries == Queries \cup {BlankQuery}
Versions == {"model_info", "migrated_from_cache"}
Writers == {"w1", "w2"}
Tiers == {"primary", "remote", "cache"}
Vecs == {<<5, 0>>, <<-5, 0>>, <<0, 5, 0>>}
UnitVecs == <<(<<5, 0>>), (<<3, 4>>), (<<-5, 0>>)>>

\* threshold=0.0 passed by BaseModelManager.search
Threshold == 0

\* the encoders: a fixed vector per image file and per query text
ImageVec(i) == UnitVecs[((i - 1) % Len(UnitVecs)) + 1]
TextVec(q) == IF q = "right" THEN <<5, 0>> ELSE <<3, 4>>

\* BLIP2HFAPIModelManager.encode_image: the bytes of a digest of the image (here two
\* bytes on a scale 0..10), each mapped into [-1, 1] by b / 127.5 - 1.0 and padded;
\* the vector is never divided by its norm
Blip2Digest(i) == <<10, (i * 5) % 11>>
Blip2EncodeImage(i) == [n \in 1..Len(Blip2Digest(i)) |-> Blip2Digest(i)[n] - 5]

\* the vectors a caller may hand to store_embedding
StoreVecs == Vecs \cup {Blip2EncodeImage(i) : i \in ImageIds}

\* ------------------------------------------------------------- arithmetic
RECURSIVE DotUpTo(_, _, _)
DotUpTo(a, b, n) == IF n = 0 THEN 0 ELSE a[n] * b[n] + DotUpTo(a, b, n - 1)

Min(a, b) == IF a <= b THEN a ELSE b

\* np.dot(a, b): raises ValueError when the shapes differ
DotDefined(a, b) == Len(a) = Len(b)
Dot(a, b) == DotUpTo(a, b, Len(a))

\* SUM(ie.embedding[i] * :query_embedding[i]) over generate_series(1, array_length):
\* an out-of-range subscript is NULL and SUM skips it
SqlDot(e, q) == DotUpTo(e, q, Min(Len(e), Len(q)))

\* np.linalg.norm(v), for the vectors of the domain (all have an integer norm)
Norm(v) == CHOOSE n \in 0..25 : n * n = Dot(v, v)

\* np.dot(q / norm(q), v / norm(v)), in units of 1/25
NormalizedDot(q, v) == (Dot(q, v) * 25) \div (Norm(q) * Norm(v))

\* ------------------------------------------------------ ranking (list.sort)
\* a candidate / result is [image |-> key, similarity |-> score]
RECURSIVE InsertDesc(_, _)
InsertDesc(sorted, x) ==
    IF sorted = <<>> THEN <<x>>
    ELSE IF Head(sorted).similarity >= x.similarity
         THEN <<Head(sorted)>> \o InsertDesc(Tail(sorted), x)
         ELSE <<x>> \o sorted

\* list.sort(key=similarity, reverse=True): stable, equal scores keep their order
RECURSIVE SortDesc(_)
SortDesc(s) ==
    IF s = <<>> THEN <<>>
    ELSE InsertDesc(SortDesc(SubSeq(s, 1, Len(s) - 1)), s[Len(s)])

\* Python slice lst[:k]
Slice(s, k) ==
    IF k >= 0 THEN SubSeq(s, 1, Min(k, Len(s)))
    ELSE SubSeq(s, 1, IF Len(s) + k > 0 THEN Len(s) + k ELSE 0)

Range(s) == {s[i] : i \in 1..Len(s)}
Pairs(res) == {<<res[i].image, res[i].similarity>> : i \in 1..Len(res)}

\* ------------------------------------------------------------------ state
VARIABLES
    images,            \* rows of table images (ids; the filename is the id)
    image_embeddings,  \* rows of table image_embeddings, in scan order
    next_id,           \* ids handed out to embedding rows
    store_call,        \* per writer: the store_embedding call in flight
    last_store,        \* the store call that completed last
    n_stores,          \* store calls begun
    cleanup,           \* cleanup_images.py: the image being removed, 0 when none
    ingest_seen,       \* the last upload / generation / migration and its outcome
    is_loaded,         \* per manager: self.is_loaded
    cache,             \* per manager: self.image_embeddings (dict, insertion order)
    image_files,       \* the image files of the image directory
    cache_file,        \* per manager: the JSON cache file, [exists, data]
    server,            \* the unified server: down / up / failed (startup raised)
    recompute_tasks,   \* managers with a recompute background task pending
    load_seen,         \* per manager: its last load or recompute: none / read /
                       \* computed / no directory
    clip_embeddings,   \* clip_server.py: the global image_embeddings
    clip_cache_file,   \* clip_server.py: the file EMBEDDINGS_CACHE_PATH
    clip_rebuild,      \* clip_server.py: the compute_image_embeddings run in progress
    clip_seen,         \* clip_server.py: what the last search_images ranked
    s_pc,              \* the search call in flight: where it is
    s_entry,           \* which operation was called
    s_model, s_query, s_top_k,
    s_text_embedding,  \* text_embedding of BaseModelManager.search
    s_tier,            \* per tier: idle / running / ok / error
    s_down,            \* the tiers the call found unreachable
    s_sql,             \* the SQL statement of vector_similarity_search: none / ok / error
    s_order,           \* tiers in the order they were begun
    s_result,          \* the list the call returned
    s_outcome,         \* none / return / raise
    http_status        \* status of the endpoint's response, 0 while none

storeVars == <<images, image_embeddings, next_id, store_call, last_store, n_stores,
               cleanup, ingest_seen>>
mgrVars == <<is_loaded, cache, image_files, cache_file, server, recompute_tasks,
            load_seen>>
standaloneVars == <<clip_embeddings, clip_cache_file, clip_rebuild, clip_seen>>
searchVars == <<s_pc, s_entry, s_model, s_query, s_top_k, s_text_embedding, s_tier,
                s_down, s_sql, s_order, s_result, s_outcome, http_status>>
vars == <<storeVars, mgrVars, searchVars, standaloneVars>>

\* no upload, generation or migration has run yet
NotIngested == [op |-> "none", status |-> 0, image_id |-> 0, model |-> "",
                force |-> FALSE, encoded |-> {}, runs |-> 0]

IdleStore == [pc |-> "idle", image_id |-> 0, model_name |-> "", embedding |-> <<>>,
              model_version |-> "", existing |-> 0]
NoStore == [image_id |-> 0, model_name |-> "", embedding |-> <<>>,
            model_version |-> "", result |-> "none"]
NoTiers == [t \in Tiers |-> "idle"]

SearchInit ==
    /\ s_pc = "idle"
    /\ s_entry = "none"
    /\ s_model = ""
    /\ s_query = ""
    /\ s_top_k = 0
    /\ s_text_embedding = <<>>
    /\ s_tier = NoTiers
    /\ s_down = {}
    /\ s_sql = "none"
    /\ s_order = <<>>
    /\ s_result = <<>>
    /\ s_outcome = "none"
    /\ http_status = 0

\* ---------------------------------------------------------- primary store
\* rows of the table for one (image, model) pair
RowsOf(table, i, m) ==
    {n \in 1..Len(table) : table[n].image_id = i /\ table[n].model_name = m}

\* the table without its unique index
UniqueIndexMissing(table, row) == TRUE

\* Index("idx_unique_image_model", "image_id", "model_name", unique=True)
UniqueIndexOK(table, row) == RowsOf(table, row.image_id, row.model_name) = {}

\* ForeignKey("images.id"), nullable=False
ForeignKeyOK(imgs, row) == row.image_id \in imgs

\* INSERT of one row: the constraints of the table decide
InsertAccepted(imgs, table, row) == ForeignKeyOK(imgs, row) /\ UniqueIndexOK(table, row)

NewRow(id, i, m, ver, v) ==
    [id |-> id, image_id |-> i, model_name |-> m, model_version |-> ver,
     embedding_dim |-> Len(v), embedding |-> v]

\* an update that forgets embedding_dim
UpdatedRowStaleDim(row, v, ver) ==
    [row EXCEPT !.embedding = v, !.model_version = ver]

\* an update that clears the stored vector
UpdatedRowEmptied(row, v, ver) ==
    [row EXCEPT !.embedding = <<>>, !.embedding_dim = 0, !.model_version = ver]

\* existing_embedding.embedding / embedding_dim / model_version = ...; commit
UpdatedRow(row, v, ver) ==
    [row EXCEPT !.embedding = v, !.embedding_dim = Len(v), !.model_version = ver]

\* the model_name a caller of store_embedding passes: store_image_embedding
\* (version get_model_info()) self.model_name, the migration its key
WriterModelName(ver, m) ==
    IF ver = "model_info" THEN ManagerModelName(m) ELSE MigrationModelName(m)

\* DatabaseService.create_image
create_image(i) ==
    /\ i \notin images
    /\ images' = images \cup {i}
    /\ UNCHANGED <<image_embeddings, next_id, store_call, last_store, n_stores, cleanup>>
    /\ UNCHANGED ingest_seen
    /\ UNCHANGED <<mgrVars, searchVars, standaloneVars>>

\* DatabaseService.store_embedding, up to the result of the SELECT
store_embedding_select(w, i, m, v, ver) ==
    /\ store_call[w].pc = "idle"
    /\ n_stores < MaxStores
    /\ i \in images
    /\ n_stores' = n_stores + 1
    /\ LET found == RowsOf(image_embeddings, i, m)
       IN store_call' = [store_call EXCEPT ![w] =
            [pc |-> "selected", image_id |-> i, model_name |-> m, embedding |-> v,
             model_version |-> ver,
             existing |-> IF found = {} THEN 0
                          ELSE image_embeddings[CHOOSE n \in found : TRUE].id]]
    /\ UNCHANGED <<images, image_embeddings, next_id, last_store, cleanup>>
    /\ UNCHANGED ingest_seen
    /\ UNCHANGED <<mgrVars, searchVars, standaloneVars>>

\* DatabaseService.store_embedding, the update or the insert and its commit
store_embedding_write(w) ==
    LET c == store_call[w]
        done(res) == [image_id |-> c.image_id, model_name |-> c.model_name,
                      embedding |-> c.embedding, model_version |-> c.model_version,
                      result |-> res]
        row == NewRow(next_id, c.image_id, c.model_name, c.model_version, c.embedding)
    IN
    /\ c.pc = "selected"
    /\ store_call' = [store_call EXCEPT ![w] = IdleStore]
    /\ IF c.existing # 0
       THEN IF \E n \in 1..Len(image_embeddings) : image_embeddings[n].id = c.existing
            THEN /\ image_embeddings' =
                      [n \in 1..Len(image_embeddings) |->
                         IF image_embeddings[n].id = c.existing
                         THEN UpdatedRow(image_embeddings[n], c.embedding, c.model_version)
                         ELSE image_embeddings[n]]
                 /\ last_store' = done("updated")
                 /\ UNCHANGED next_id
            \* the row was deleted since the SELECT: the UPDATE matches no row
            ELSE /\ last_store' = done("StaleDataError")
                 /\ UNCHANGED <<image_embeddings, next_id>>
       ELSE IF InsertAccepted(images, image_embeddings, row)
       THEN /\ image_embeddings' = Append(image_embeddings, row)
            /\ next_id' = next_id + 1
            /\ last_store' = done("stored")
       ELSE /\ last_store' = done(IF ForeignKeyOK(images, row) THEN "IntegrityError"
                                  ELSE "ForeignKeyViolation")
            /\ UNCHANGED <<image_embeddings, next_id>>
    /\ UNCHANGED <<images, n_stores, cleanup>>
    /\ UNCHANGED ingest_seen
    /\ UNCHANGED <<mgrVars, searchVars, standaloneVars>>

\* EmbeddingGenerator.process_image: supabase.table("image_embeddings").insert(...)
\* for a model the generator's earlier listing reported as missing
process_image(i, m) ==
    LET row == NewRow(next_id, i, m, "v1.0", ImageVec(i))
    IN
    /\ n_stores < MaxStores
    /\ i \in images
    /\ n_stores' = n_stores + 1
    /\ IF InsertAccepted(images, image_embeddings, row)
       THEN /\ image_embeddings' = Append(image_embeddings, row)
            /\ next_id' = next_id + 1
       ELSE UNCHANGED <<image_embeddings, next_id>>
    /\ UNCHANGED <<images, store_call, last_store, cleanup>>
    /\ UNCHANGED ingest_seen
    /\ UNCHANGED <<mgrVars, searchVars, standaloneVars>>

\* the models cleanup_images.py requires of every image
required_models == ModelNames

\* DELETE FROM image_embeddings WHERE image_id = i
DeleteEmbeddings(table, i) ==
    LET others(r) == r.image_id # i
    IN SelectSeq(table, others)

\* a foreign key without ON DELETE CASCADE whose delete goes through
DeleteImageNoCascade(table, i) == table

\* DELETE FROM images WHERE id = i: ForeignKey("images.id", ondelete="CASCADE")
\* deletes the embedding rows of the image in the same statement
DeleteImageCascade(table, i) == DeleteEmbeddings(table, i)

\* cleanup_images_without_embeddings, for one image that lacks a required model:
\* the DELETE of its embedding rows
cleanup_delete_embeddings(i) ==
    /\ cleanup = 0
    /\ i \in images
    /\ \E m \in required_models : RowsOf(image_embeddings, i, m) = {}
    /\ image_embeddings' = DeleteEmbeddings(image_embeddings, i)
    /\ cleanup' = i
    /\ UNCHANGED <<images, next_id, store_call, last_store, n_stores>>
    /\ UNCHANGED ingest_seen
    /\ UNCHANGED <<mgrVars, searchVars, standaloneVars>>

\* then the DELETE of the image row; an exception of either call is printed and
\* the loop goes on (ok false: the image row stays)
cleanup_delete_image ==
    /\ cleanup # 0
    /\ cleanup' = 0
    /\ \E ok \in BOOLEAN :
         IF ok
         THEN /\ images' = images \ {cleanup}
              /\ image_embeddings' = DeleteImageCascade(image_embeddings, cleanup)
         ELSE UNCHANGED <<images, image_embeddings>>
    /\ UNCHANGED <<next_id, store_call, last_store, n_stores>>
    /\ UNCHANGED ingest_seen
    /\ UNCHANGED <<mgrVars, searchVars, standaloneVars>>

\* ------------------------------------------------------------- the tiers
\* a session factory that `async with` accepts
AsyncWithSessionWorks == TRUE

\* `async with get_async_session() as session`: get_async_session is a plain
\* async generator function (no @asynccontextmanager), the object it returns has
\* no __aenter__/__aexit__, and the statement raises TypeError before its body
AsyncWithSession == FALSE

\* rows of one model joined with their image, in scan order
ModelRows(table, imgs, m) ==
    LET joined(r) == r.model_name = m /\ r.image_id \in imgs
    IN SelectSeq(table, joined)

Scored(rows, q, score(_, _)) ==
    [n \in 1..Len(rows) |->
        [image |-> rows[n].image_id, similarity |-> score(q, rows[n].embedding)]]

AtLeast(cands, th) ==
    LET passes(c) == c.similarity >= th
    IN SelectSeq(cands, passes)

IsSortedDesc(s) == \A n \in 1..(Len(s) - 1) : s[n].similarity >= s[n + 1].similarity

\* every order ORDER BY similarity_score DESC may give: ties come in any order
OrderByDesc(cands) ==
    {p \in [1..Len(cands) -> Range(cands)] : Range(p) = Range(cands) /\ IsSortedDesc(p)}

\* the SQL statement of vector_similarity_search (WHERE >= :threshold, ORDER BY, LIMIT):
\* the result lists it may give. LIMIT rejects a negative count
SqlSearchRaises(k) == k < 0
SqlSearch(rows, q, k, th) ==
    {Slice(p, k) : p \in OrderByDesc(AtLeast(Scored(rows, q, SqlDot), th))}

\* DatabaseService._python_vector_search over the fetched rows
PythonSearchRaises(rows, q) == \E n \in 1..Len(rows) : ~DotDefined(q, rows[n].embedding)
PythonSearch(rows, q, k, th) == Slice(SortDesc(AtLeast(Scored(rows, q, Dot), th)), k)

\* DatabaseService.vector_similarity_search: [raised, results] for each way the
\* statement (sql_ok) and the fetch of the fallback (fetch_ok) may go
VectorSimilaritySearch(rows, q, k, th, sql_ok, fetch_ok) ==
    IF sql_ok /\ ~SqlSearchRaises(k)
    THEN {[raised |-> FALSE, results |-> r] : r \in SqlSearch(rows, q, k, th)}
    ELSE IF fetch_ok /\ ~PythonSearchRaises(rows, q)
         THEN {[raised |-> FALSE, results |-> PythonSearch(rows, q, k, th)]}
         ELSE {[raised |-> TRUE, results |-> <<>>]}

\* the rows of _supabase_search's loop that do not raise (np.dot raises on a
\* shape mismatch, the row is logged and skipped)
RemoteUsable(rows, q) ==
    LET fits(r) == DotDefined(q, r.embedding)
    IN SelectSeq(rows, fits)

\* BaseModelManager._supabase_search once the REST call has answered
SupabaseSearch(rows, q, k) ==
    IF rows = <<>> THEN <<>>
    ELSE Slice(SortDesc(Scored(RemoteUsable(rows, q), q, NormalizedDot)), k)

\* BaseModelManager._fallback_file_search once encode_text has answered;
\* entries of the dict are [image_id, embedding] like rows
FileSearchRaises(entries, q) == \E n \in 1..Len(entries) : ~DotDefined(q, entries[n].embedding)
FileSearch(entries, q, k) == Slice(SortDesc(Scored(entries, q, Dot)), k)

\* ------------------------------------------------------- the model manager
\* self.image_embeddings[image_file] = embedding
DictSet(d, i, v) ==
    IF \E n \in 1..Len(d) : d[n].image_id = i
    THEN [n \in 1..Len(d) |-> IF d[n].image_id = i THEN [d[n] EXCEPT !.embedding = v] ELSE d[n]]
    ELSE Append(d, [image_id |-> i, embedding |-> v])

\* the loop of compute_image_embeddings over the listing `files`; the images of
\* `failed` raise in Image.open / encode_image and are skipped
RECURSIVE ComputeAll(_, _, _)
\* a loop that the first image that raises brings to its end
ComputeAllAborts(d, files, failed) ==
    IF files = <<>> \/ Head(files) \in failed THEN d
    ELSE ComputeAll(DictSet(d, Head(files), ImageVec(Head(files))), Tail(files), failed)

ComputeAll(d, files, failed) ==
    IF files = <<>> THEN d
    ELSE ComputeAll(IF Head(files) \in failed THEN d
                    ELSE DictSet(d, Head(files), ImageVec(Head(files))),
                    Tail(files), failed)

\* os.listdir(settings.IMAGES_PATH): the image files in an arbitrary order
ListDir(files) == {p \in [1..Cardinality(files) -> files] : Range(p) = files}
Listings == ListDir(ImageIds)

Keys(d) == {d[n].image_id : n \in 1..Len(d)}

\* the JSON cache file of a manager or of a standalone server
NoFile == [exists |-> FALSE, data |-> <<>>]
\* save_embeddings_cache's cache_data = {k: v.tolist() for k, v in ...}: the JSON
\* object, a list of (key, list of numbers) members in the dict's order
CacheData(d) == [n \in 1..Len(d) |-> <<d[n].image_id, d[n].embedding>>]
\* a reading that loses the last member of the object
FromCacheDataTruncated(data) ==
    [n \in 1..(Len(data) - 1) |-> [image_id |-> data[n][1], embedding |-> data[n][2]]]
\* load_image_embeddings' {k: np.array(v) for k, v in cached_data.items()}
FromCacheData(data) ==
    [n \in 1..Len(data) |-> [image_id |-> data[n][1], embedding |-> data[n][2]]]
SavedFile(d) == [exists |-> TRUE, data |-> CacheData(d)]


\* compute_image_embeddings: nothing when the image directory is missing
\* (dir_ok), else the loop over the listing and save_embeddings_cache, whose
\* exception is logged (save_ok); gives the dict, the file, which way the call
\* went and the images it handed to the encoder
ComputeImageEmbeddings(d, file, files, failed, dir_ok, save_ok) ==
    IF ~dir_ok
    THEN [dict |-> d, file |-> file, pass |-> "no directory", encoded |-> {}]
    ELSE LET computed == ComputeAll(d, files, failed)
         IN [dict |-> computed,
             file |-> IF save_ok THEN SavedFile(computed) ELSE file,
             pass |-> "computed", encoded |-> Range(files)]

\* load_image_embeddings: the dict of the cache file when it exists and can be
\* read (read_ok), else compute_image_embeddings
LoadImageEmbeddings(d, file, files, failed, dir_ok, save_ok, read_ok) ==
    IF file.exists /\ read_ok
    THEN [dict |-> FromCacheData(file.data), file |-> file, pass |-> "read",
          encoded |-> {}]
    ELSE ComputeImageEmbeddings(d, file, files, failed, dir_ok, save_ok)

\* an attribute shared by all the managers: an assignment through one of them
\* is seen by every manager
SetForAll(attr, m, v) == [o \in DOMAIN attr |-> v]

\* self.image_embeddings and self.cache_file are attributes of the instance, set in
\* __init__, and the cache file's name holds the manager's model_name: an
\* assignment through manager m changes m's own only
SetFor(attr, m, v) == [attr EXCEPT ![m] = v]

\* an image file is put into / taken out of the image directory, between requests
add_image_file(i) ==
    /\ s_pc = "idle"
    /\ i \notin image_files
    /\ image_files' = image_files \cup {i}
    /\ UNCHANGED <<is_loaded, cache, cache_file, server, recompute_tasks, load_seen>>
    /\ UNCHANGED <<storeVars, searchVars, standaloneVars>>

remove_image_file(i) ==
    /\ s_pc = "idle"
    /\ i \in image_files
    /\ image_files' = image_files \ {i}
    /\ UNCHANGED <<is_loaded, cache, cache_file, server, recompute_tasks, load_seen>>
    /\ UNCHANGED <<storeVars, searchVars, standaloneVars>>

\* lifespan, up to its yield: every manager's load_model is awaited with
\* asyncio.gather; the managers of `fail` raise in from_pretrained before
\* is_loaded is set, the others set is_loaded and load their embeddings; when one
\* raises, lifespan logs and re-raises and the application does not start
lifespan ==
    /\ server = "down"
    /\ \E fail \in SUBSET ModelNames, files \in ListDir(image_files),
          failed \in SUBSET image_files, dir_ok \in BOOLEAN, read_ok \in BOOLEAN :
         LET loaded(m) == LoadImageEmbeddings(cache[m], cache_file[m], files, failed,
                                              dir_ok, TRUE, read_ok)
         IN /\ is_loaded' = [m \in ModelNames |-> m \notin fail]
            /\ load_seen' = [m \in ModelNames |->
                                IF m \in fail THEN load_seen[m] ELSE loaded(m).pass]
            /\ cache' = [m \in ModelNames |->
                            IF m \in fail THEN cache[m] ELSE loaded(m).dict]
            /\ cache_file' = [m \in ModelNames |->
                                 IF m \in fail THEN cache_file[m] ELSE loaded(m).file]
            /\ server' = IF fail = {} THEN "up" ELSE "failed"
    /\ UNCHANGED <<image_files, recompute_tasks>>
    /\ UNCHANGED <<storeVars, searchVars, standaloneVars>>

\* BaseModelManager.recompute_embeddings, run as a background task: the dict is
\* cleared, the cache file removed, compute_image_embeddings run. None of its
\* awaits suspends the coroutine, so it runs between two requests
recompute_embeddings(m) ==
    /\ server = "up"
    /\ s_pc = "idle"
    /\ m \in recompute_tasks
    /\ recompute_tasks' = recompute_tasks \ {m}
    /\ \E files \in ListDir(image_files), failed \in SUBSET image_files,
          dir_ok \in BOOLEAN, save_ok \in BOOLEAN :
         LET r == ComputeImageEmbeddings(<<>>, NoFile, files,
                                         IF is_loaded[m] THEN failed ELSE image_files,
                                         dir_ok, save_ok)
         IN /\ cache' = SetFor(cache, m, r.dict)
            /\ cache_file' = SetFor(cache_file, m, r.file)
            /\ load_seen' = [load_seen EXCEPT ![m] = r.pass]
    /\ UNCHANGED <<is_loaded, image_files, server>>
    /\ UNCHANGED <<storeVars, searchVars, standaloneVars>>

\* ------------------------------------------------------------ search call
\* how a tier's attempt ends: the tier's status, where the call goes on, what the
\* call returns if it ends here, and whether the tier was found unreachable
Ends(status, next, outcome, results, down) ==
    [status |-> status, next |-> next, outcome |-> outcome, results |-> results,
     down |-> down]

\* the inner try of BaseModelManager.search: the session, then
\* DatabaseService.vector_similarity_search; `return search_results` on success,
\* any exception goes on to _supabase_search
PrimaryOutcome(session_ok, rows, q, k, th, db_up, sql_ok) ==
    IF ~session_ok THEN {Ends("error", "remote", "none", <<>>, FALSE)}
    ELSE {IF r.raised THEN Ends("error", "remote", "none", <<>>, ~db_up)
          ELSE Ends("ok", "done", "return", r.results, FALSE) :
            r \in VectorSimilaritySearch(rows, q, k, th, db_up /\ sql_ok, db_up)}

\* a remote tier that treats an empty answer as a failure and goes on to the cache
RemoteOutcomeEmptyFallsThrough(rows, q, k, rest_ok) ==
    IF rest_ok /\ rows = <<>> THEN Ends("ok", "cache", "none", <<>>, FALSE)
    ELSE IF rest_ok THEN Ends("ok", "done", "return", SupabaseSearch(rows, q, k), FALSE)
    ELSE Ends("error", "done", "return", <<>>, TRUE)

\* BaseModelManager._supabase_search: the REST call answers (rest_ok) or raises;
\* `except Exception` logs and returns []
RemoteOutcome(rows, q, k, rest_ok) ==
    IF rest_ok THEN Ends("ok", "done", "return", SupabaseSearch(rows, q, k), FALSE)
    ELSE Ends("error", "done", "return", <<>>, TRUE)

\* a file search that lets its exception out
CacheOutcomeRaises(entries, q, k, enc_ok) ==
    IF entries = <<>> THEN Ends("ok", "done", "return", <<>>, FALSE)
    ELSE IF enc_ok /\ ~FileSearchRaises(entries, q)
         THEN Ends("ok", "done", "return", FileSearch(entries, q, k), FALSE)
         ELSE Ends("error", "done", "raise", <<>>, ~enc_ok)

\* BaseModelManager._fallback_file_search: [] for an empty dict; encode_text
\* answers (enc_ok) or raises; `except Exception` logs and returns []
CacheOutcome(entries, q, k, enc_ok) ==
    IF entries = <<>> THEN Ends("ok", "done", "return", <<>>, FALSE)
    ELSE IF enc_ok /\ ~FileSearchRaises(entries, q)
         THEN Ends("ok", "done", "return", FileSearch(entries, q, k), FALSE)
         ELSE Ends("error", "done", "return", <<>>, ~enc_ok)

\* search_with_model's `except Exception`: HTTPException(status_code=500)
HttpStatus(outcome) == IF outcome = "raise" THEN 500 ELSE 200

BeginCall(entry, m, q, k) ==
    /\ server = "up"
    /\ s_pc = "idle"
    /\ s_entry' = entry
    /\ s_model' = m
    /\ s_query' = q
    /\ s_top_k' = k

\* the checks that open search_with_model with the query before the model
RequestStatusQueryFirst(m, q) ==
    IF q = BlankQuery THEN 400
    ELSE IF m \notin model_managers THEN 404
    ELSE 0

\* the checks that open search_with_model: HTTPException(404) for a model that is
\* not in model_managers, then HTTPException(400) for a blank query; 0: goes on
RequestStatus(m, q) ==
    IF m \notin model_managers THEN 404
    ELSE IF q = BlankQuery THEN 400
    ELSE 0

\* search_with_model: rejects the request, or awaits
\* manager.search(request.query, request.top_k)
search_with_model(m, q, k) ==
    /\ BeginCall("search", m, q, k)
    /\ IF RequestStatus(m, q) # 0
       THEN /\ s_pc' = "responded"
            /\ http_status' = RequestStatus(m, q)
       ELSE /\ s_pc' = "encode"
            /\ UNCHANGED http_status
    /\ UNCHANGED <<s_text_embedding, s_tier, s_down, s_sql, s_order, s_result, s_outcome>>
    /\ UNCHANGED <<storeVars, mgrVars, standaloneVars>>

\* model_health_check: 404 for a model that is not in model_managers, else the
\* manager's get_health (its session raises, the count is that of the dict)
model_health_check(m) ==
    /\ BeginCall("health", m, "", 0)
    /\ s_pc' = "responded"
    /\ IF m \notin model_managers
       THEN /\ http_status' = 404
            /\ UNCHANGED s_result
       ELSE /\ http_status' = 200
            /\ s_result' = <<[status |-> IF is_loaded[m] THEN "healthy" ELSE "not_loaded",
                              loaded |-> is_loaded[m],
                              embeddings_count |-> Len(cache[m])]>>
    /\ UNCHANGED <<s_text_embedding, s_tier, s_down, s_sql, s_order, s_outcome>>
    /\ UNCHANGED <<storeVars, mgrVars, standaloneVars>>

\* an add_task that does not keep the task
AddTaskDropped(tasks, m) == tasks

\* background_tasks.add_task(...): the tasks run once the response has been sent
AddTask(tasks, m) == tasks \cup {m}

\* recompute_model_embeddings: 404 for a model that is not in model_managers, else
\* background_tasks.add_task(recompute_single) and the answer "started"
recompute_model_embeddings(m) ==
    /\ BeginCall("recompute", m, "", 0)
    /\ s_pc' = "responded"
    /\ IF m \notin model_managers
       THEN /\ http_status' = 404
            /\ UNCHANGED recompute_tasks
       ELSE /\ http_status' = 200
            /\ recompute_tasks' = AddTask(recompute_tasks, m)
    /\ UNCHANGED <<s_text_embedding, s_tier, s_down, s_sql, s_order, s_result, s_outcome>>
    /\ UNCHANGED <<is_loaded, cache, image_files, cache_file, server, load_seen>>
    /\ UNCHANGED <<storeVars, standaloneVars>>

\* recompute_embeddings (POST /recompute): add_task(recompute_all), whose loop
\* awaits every manager's recompute_embeddings, and the answer "started"
recompute_all ==
    /\ BeginCall("recompute_all", "", "", 0)
    /\ s_pc' = "responded"
    /\ http_status' = 200
    /\ recompute_tasks' = recompute_tasks \cup model_managers
    /\ UNCHANGED <<s_text_embedding, s_tier, s_down, s_sql, s_order, s_result, s_outcome>>
    /\ UNCHANGED <<is_loaded, cache, image_files, cache_file, server, load_seen>>
    /\ UNCHANGED <<storeVars, standaloneVars>>

\* BaseModelManager.search: text_embedding = await self.encode_text(query_text);
\* an exception leaves the outer try for the file-based search
search_encode ==
    /\ s_pc = "encode"
    /\ \E ok \in BOOLEAN :
         IF is_loaded[s_model] /\ ok
         THEN /\ s_text_embedding' = TextVec(s_query)
              /\ s_pc' = "primary"
         ELSE /\ s_pc' = "cache"
              /\ UNCHANGED s_text_embedding
    /\ UNCHANGED <<s_entry, s_model, s_query, s_top_k, s_tier, s_down, s_sql, s_order,
                   s_result, s_outcome, http_status>>
    /\ UNCHANGED <<storeVars, mgrVars, standaloneVars>>

\* a tier is entered: the call awaits it
TierBegin(t) ==
    /\ s_pc = t
    /\ s_tier' = [s_tier EXCEPT ![t] = "running"]
    /\ s_order' = Append(s_order, t)
    /\ s_pc' = "in_" \o t
    /\ UNCHANGED <<s_entry, s_model, s_query, s_top_k, s_text_embedding, s_down, s_sql,
                   s_result, s_outcome, http_status>>
    /\ UNCHANGED <<storeVars, mgrVars, standaloneVars>>

\* a ranking loop that takes each entry out of the dict as it scores it
DictAfterSearchConsumed(d) == <<>>

\* _fallback_file_search reads self.image_embeddings (a truth test and a loop over
\* items()): the dict after the call
DictAfterSearch(d) == d

\* a tier has answered
TierEnd(t, e) ==
    /\ s_tier' = [s_tier EXCEPT ![t] = e.status]
    /\ s_down' = IF e.down THEN s_down \cup {t} ELSE s_down
    /\ UNCHANGED s_sql
    /\ s_pc' = e.next
    /\ s_outcome' = e.outcome
    /\ s_result' = e.results
    /\ UNCHANGED <<s_entry, s_model, s_query, s_top_k, s_text_embedding, s_order,
                   http_status>>
    /\ cache' = IF t = "cache"
                THEN SetFor(cache, s_model, DictAfterSearch(cache[s_model]))
                ELSE cache
    /\ UNCHANGED <<is_loaded, image_files, cache_file, server, recompute_tasks,
                   load_seen>>
    /\ UNCHANGED <<storeVars, standaloneVars>>

primary_begin == TierBegin("primary")

primary_end ==
    /\ s_pc = "in_primary"
    /\ \E db_up \in BOOLEAN, sql_ok \in BOOLEAN :
         \E e \in PrimaryOutcome(AsyncWithSession,
                                 ModelRows(image_embeddings, images,
                                           ManagerModelName(s_model)),
                                 s_text_embedding, s_top_k, Threshold, db_up, sql_ok) :
            TierEnd("primary", e)

remote_begin == TierBegin("remote")

remote_end ==
    /\ s_pc = "in_remote"
    /\ \E rest_ok \in BOOLEAN :
         TierEnd("remote", RemoteOutcome(ModelRows(image_embeddings, images,
                                                   ManagerModelName(s_model)),
                                         s_text_embedding, s_top_k, rest_ok))

\* supabase...execute() carries no timeout in this code (no wait_for, no timeout
\* argument of create_client): when the REST API never answers, either the client
\* library ends the call with an exception (remote_end with rest_ok false) or the
\* call waits for ever
remote_never_answers ==
    /\ s_pc = "in_remote"
    /\ s_pc' = "hung"
    /\ UNCHANGED <<s_entry, s_model, s_query, s_top_k, s_text_embedding, s_tier,
                   s_down, s_sql, s_order, s_result, s_outcome, http_status>>
    /\ UNCHANGED <<storeVars, mgrVars, standaloneVars>>

cache_begin == TierBegin("cache")

cache_end ==
    /\ s_pc = "in_cache"
    /\ \E ok \in BOOLEAN :
         TierEnd("cache", CacheOutcome(cache[s_model], TextVec(s_query), s_top_k,
                                       is_loaded[s_model] /\ ok))

\* search_with_model after manager.search: the response (get_embeddings falls back
\* to the dict and does not raise), or HTTPException(500) when the search raised
search_respond ==
    /\ s_pc = "done"
    /\ s_pc' = "responded"
    /\ http_status' = HttpStatus(s_outcome)
    /\ UNCHANGED <<s_entry, s_model, s_query, s_top_k, s_text_embedding, s_tier,
                   s_down, s_sql, s_order, s_result, s_outcome>>
    /\ UNCHANGED <<storeVars, mgrVars, standaloneVars>>

\* DatabaseService.vector_similarity_search called with a session of its caller
vector_similarity_search(m, q, k) ==
    /\ BeginCall("vector_similarity_search", m, q, k)
    /\ \E db_up \in BOOLEAN, sql_ok \in BOOLEAN :
         \E e \in PrimaryOutcome(TRUE, ModelRows(image_embeddings, images, m),
                                 TextVec(q), k, Threshold, db_up, sql_ok) :
            /\ s_outcome' = IF e.status = "ok" THEN "return" ELSE "raise"
            /\ s_result' = e.results
            /\ s_tier' = [s_tier EXCEPT !["primary"] = e.status]
            /\ s_down' = IF e.down THEN {"primary"} ELSE {}
            /\ s_sql' = IF db_up /\ sql_ok /\ ~SqlSearchRaises(k) THEN "ok" ELSE "error"
    /\ UNCHANGED http_status
    /\ s_text_embedding' = TextVec(q)
    /\ s_order' = <<"primary">>
    /\ s_pc' = "responded"
    /\ UNCHANGED <<storeVars, mgrVars, standaloneVars>>

\* the caller has its answer: the call is over
call_over ==
    /\ s_pc = "responded"
    /\ s_pc' = "idle"
    /\ s_entry' = "none"
    /\ s_model' = ""
    /\ s_query' = ""
    /\ s_top_k' = 0
    /\ s_text_embedding' = <<>>
    /\ s_tier' = NoTiers
    /\ s_down' = {}
    /\ s_sql' = "none"
    /\ s_order' = <<>>
    /\ s_result' = <<>>
    /\ s_outcome' = "none"
    /\ http_status' = 0
    /\ UNCHANGED <<storeVars, mgrVars, standaloneVars>>

\* ------------------------------------------- standalone server (clip_server.py)
\* the standalone servers: clip_server.py is a Flask application, the others
\* (fastapi_clip_server.py, dfn5b_fastapi_server.py, siglip_fastapi_server.py) are
\* FastAPI applications with the same functions
StandaloneServers == {"flask", "fastapi"}
NoRebuild == [pc |-> "down", kind |-> "none", todo |-> <<>>, failed |-> {},
              listed |-> {}, before |-> <<>>, after |-> <<>>, recomputed |-> FALSE]
NotSeen == [searched |-> FALSE, during |-> FALSE, ranked |-> <<>>, before |-> <<>>,
            after |-> <<>>, results |-> <<>>, blank |-> FALSE, encoded |-> FALSE,
            status |-> 0]

\* __main__: load_image_embeddings() before app.run; the directory exists
clip_load_image_embeddings ==
    /\ clip_rebuild.pc = "down"
    /\ \E files \in ListDir(image_files), failed \in SUBSET image_files :
         LET r == LoadImageEmbeddings(clip_embeddings, clip_cache_file, files, failed,
                                      TRUE, TRUE, TRUE)
         IN /\ clip_embeddings' = r.dict
            /\ clip_cache_file' = r.file
    /\ \E kind \in StandaloneServers :
         clip_rebuild' = [clip_rebuild EXCEPT !.pc = "idle", !.kind = kind]
    /\ UNCHANGED clip_seen
    /\ UNCHANGED <<storeVars, mgrVars, searchVars>>

\* recompute_embeddings (POST /recompute): os.remove of the cache file, then
\* compute_image_embeddings up to its listing; image_embeddings is not cleared.
\* `before` and `after` remember the dict at this point and the dict the loop
\* will have built
clip_recompute_embeddings ==
    /\ clip_rebuild.pc = "idle"
    /\ clip_cache_file' = NoFile
    /\ \E files \in ListDir(image_files), failed \in SUBSET image_files :
         clip_rebuild' = [pc |-> "computing", kind |-> clip_rebuild.kind,
                          todo |-> files, failed |-> failed,
                          listed |-> image_files, before |-> clip_embeddings,
                          after |-> ComputeAll(clip_embeddings, files, failed),
                          recomputed |-> FALSE]
    /\ UNCHANGED <<clip_embeddings, clip_seen>>
    /\ UNCHANGED <<storeVars, mgrVars, searchVars>>

\* one turn of compute_image_embeddings' loop; the server is threaded, other
\* requests run between two turns
clip_compute_step ==
    /\ clip_rebuild.pc = "computing"
    /\ clip_rebuild.todo # <<>>
    /\ LET f == Head(clip_rebuild.todo)
       IN clip_embeddings' = IF f \in clip_rebuild.failed THEN clip_embeddings
                             ELSE DictSet(clip_embeddings, f, ImageVec(f))
    /\ clip_rebuild' = [clip_rebuild EXCEPT !.todo = Tail(@)]
    /\ UNCHANGED <<clip_cache_file, clip_seen>>
    /\ UNCHANGED <<storeVars, mgrVars, searchVars>>

\* the end of compute_image_embeddings: json.dump of the dict, and the response
clip_compute_save ==
    /\ clip_rebuild.pc = "computing"
    /\ clip_rebuild.todo = <<>>
    /\ \E save_ok \in BOOLEAN :
         clip_cache_file' = IF save_ok THEN SavedFile(clip_embeddings) ELSE NoFile
    /\ clip_rebuild' = [clip_rebuild EXCEPT !.pc = "idle", !.recomputed = TRUE]
    /\ UNCHANGED <<clip_embeddings, clip_seen>>
    /\ UNCHANGED <<storeVars, mgrVars, searchVars>>

\* search_images: ranks the entries image_embeddings holds at that moment; the
\* text encoder runs only when there are entries
search_images(q, k) ==
    [searched |-> TRUE,
     during |-> clip_rebuild.pc = "computing",
     ranked |-> clip_embeddings,
     before |-> clip_rebuild.before,
     after |-> clip_rebuild.after,
     results |-> IF clip_embeddings = <<>> \/ FileSearchRaises(clip_embeddings, TextVec(q))
                 THEN <<>>
                 ELSE FileSearch(clip_embeddings, TextVec(q), k),
     blank |-> FALSE,
     encoded |-> clip_embeddings # <<>>,
     status |-> IF clip_embeddings # <<>> /\ FileSearchRaises(clip_embeddings, TextVec(q))
                THEN 500 ELSE 200]

\* the status a standalone server answers a blank query with: Flask returns the
\* 400 response; FastAPI raises HTTPException(400) inside the try block whose
\* `except Exception` turns it into HTTPException(500)
BlankStatus(kind) == IF kind = "flask" THEN 400 ELSE 500

\* search (POST /search) of a standalone server. The Flask server is threaded and
\* serves a search between two turns of a rebuild; the FastAPI servers rebuild
\* inside the event loop
search(q, k) ==
    /\ \/ clip_rebuild.pc = "idle"
       \/ clip_rebuild.pc = "computing" /\ clip_rebuild.kind = "flask"
    /\ clip_seen' = IF q = BlankQuery
                    THEN [NotSeen EXCEPT !.blank = TRUE,
                                         !.status = BlankStatus(clip_rebuild.kind)]
                    ELSE search_images(q, k)
    /\ UNCHANGED <<clip_embeddings, clip_cache_file, clip_rebuild>>
    /\ UNCHANGED <<storeVars, mgrVars, searchVars>>

StandaloneInit ==
    /\ clip_embeddings = <<>>
    /\ clip_cache_file = NoFile
    /\ clip_rebuild = NoRebuild
    /\ clip_seen = NotSeen

\* ---------------------------------- ingestion (upload, generation, migration)
\* DatabaseService.store_embedding run to its end on one session: the SELECT
\* (scalar_one_or_none raises on several rows), then the update or the insert; a
\* call that raises leaves the table as it was
StoreEmbedding(imgs, table, nid, i, name, v, ver) ==
    LET found == RowsOf(table, i, name)
        row == NewRow(nid, i, name, ver, v)
    IN IF Cardinality(found) > 1
       THEN [table |-> table, next_id |-> nid, ok |-> FALSE]
       ELSE IF found # {}
       THEN [table |-> [n \in 1..Len(table) |->
                          IF n \in found THEN UpdatedRow(table[n], v, ver) ELSE table[n]],
             next_id |-> nid, ok |-> TRUE]
       ELSE IF InsertAccepted(imgs, table, row)
       THEN [table |-> Append(table, row), next_id |-> nid + 1, ok |-> TRUE]
       ELSE [table |-> table, next_id |-> nid, ok |-> FALSE]

\* BaseModelManager.process_and_store_image for the image file `f` of manager m:
\* encode, then store_image_embedding under basename(f), which opens its own
\* session (session_ok), creates the image row when no image has that filename
\* and stores under self.model_name
ProcessAndStoreImage(session_ok, imgs, table, nid, f, m) ==
    IF ~session_ok
    THEN [images |-> imgs, table |-> table, next_id |-> nid, ok |-> FALSE]
    ELSE LET imgs2 == imgs \cup {f}
             r == StoreEmbedding(imgs2, table, nid, f, ManagerModelName(m),
                                 ImageVec(f), "model_info")
         IN [images |-> imgs2, table |-> r.table, next_id |-> r.next_id, ok |-> r.ok]

\* upload_image for an upload stored as image `unique` whose temporary file is
\* `temp`: the image row through `async with get_async_session()`, then
\* process_and_store_image(temp_path) of every listed manager; any exception of
\* the first part is answered with status 500
RECURSIVE UploadEmbeddings(_, _, _, _, _, _, _)
UploadEmbeddings(session_ok, imgs, table, nid, temp, todo, done) ==
    IF todo = {} THEN [images |-> imgs, table |-> table, next_id |-> nid,
                       embeddings_generated |-> done]
    ELSE LET m == CHOOSE x \in todo : TRUE
             r == ProcessAndStoreImage(session_ok, imgs, table, nid, temp, m)
         IN UploadEmbeddings(session_ok, r.images, r.table, r.next_id, temp,
                             todo \ {m}, IF r.ok THEN done \cup {m} ELSE done)

UploadImage(session_ok, imgs, table, nid, unique, temp, models) ==
    IF ~session_ok
    THEN [status |-> 500, image_id |-> 0, images |-> imgs, table |-> table,
          next_id |-> nid, embeddings_generated |-> {}]
    ELSE LET r == UploadEmbeddings(session_ok, imgs \cup {unique}, table, nid, temp,
                                   models \cap model_managers, {})
         IN [status |-> 200, image_id |-> unique, images |-> r.images,
             table |-> r.table, next_id |-> r.next_id,
             embeddings_generated |-> r.embeddings_generated]

\* the ids an upload takes: the uuid filename and the name of the temporary file
UniqueFilename(imgs) == 1 + Cardinality(ImageIds) + Cardinality(imgs)
TempFilename(imgs) == UniqueFilename(imgs) + 1

\* POST /images/upload with generate_embeddings=true and the models listed
upload_image(models) ==
    /\ server = "up"
    /\ LET r == UploadImage(AsyncWithSession, images, image_embeddings, next_id,
                            UniqueFilename(images), TempFilename(images), models)
       IN /\ images' = r.images
          /\ image_embeddings' = r.table
          /\ next_id' = r.next_id
          /\ ingest_seen' = [NotIngested EXCEPT !.op = "upload", !.status = r.status,
                                                !.encoded = r.embeddings_generated,
                                                !.image_id = r.image_id]
    /\ UNCHANGED <<store_call, last_store, n_stores, cleanup>>
    /\ UNCHANGED <<mgrVars, searchVars, standaloneVars>>

\* the loop of the task generate_embeddings over the images of the session: an
\* image with a row whose model_name equals the path parameter `model` is skipped
\* unless force_regenerate, the others are processed when their file exists
RECURSIVE GenerateLoop(_, _, _, _, _, _, _, _)
GenerateLoop(todo, imgs, table, nid, model, force, files, encoded) ==
    IF todo = {} THEN [table |-> table, next_id |-> nid, encoded |-> encoded]
    ELSE LET i == CHOOSE x \in todo : \A y \in todo : x <= y
             existing_embeddings == RowsOf(table, i, model)
         IN IF existing_embeddings # {} /\ ~force
            THEN GenerateLoop(todo \ {i}, imgs, table, nid, model, force, files, encoded)
            ELSE IF i \notin files
            THEN GenerateLoop(todo \ {i}, imgs, table, nid, model, force, files, encoded)
            ELSE LET r == ProcessAndStoreImage(TRUE, imgs, table, nid, i, model)
                 IN GenerateLoop(todo \ {i}, imgs, r.table, r.next_id, model, force,
                                 files, encoded \cup {i})

\* the task generate_embeddings: `async with get_async_session()`, whose
\* exception the task logs, then the loop
GenerateEmbeddings(session_ok, imgs, table, nid, model, force, files) ==
    IF ~session_ok THEN [table |-> table, next_id |-> nid, encoded |-> {}]
    ELSE GenerateLoop(imgs, imgs, table, nid, model, force, files, {})

\* POST /embeddings/generate/{model}: 404 for an unknown model, else the task is
\* handed to the background tasks and the answer is "started"
generate_embeddings_for_model(model, force_regenerate) ==
    /\ server = "up"
    /\ ~(ingest_seen.op = "generate" /\ ingest_seen.status = 200)
    /\ ingest_seen' =
         IF model \notin model_managers
         THEN [NotIngested EXCEPT !.op = "generate", !.status = 404, !.model = model]
         ELSE [NotIngested EXCEPT !.op = "generate", !.status = 200, !.model = model,
                                  !.force = force_regenerate]
    /\ UNCHANGED <<images, image_embeddings, next_id, store_call, last_store,
                   n_stores, cleanup>>
    /\ UNCHANGED <<mgrVars, searchVars, standaloneVars>>

\* the background task of the endpoint, run after its answer
generate_embeddings ==
    /\ ingest_seen.op = "generate" /\ ingest_seen.status = 200
    /\ LET r == GenerateEmbeddings(AsyncWithSession, images, image_embeddings, next_id,
                                   ingest_seen.model, ingest_seen.force, image_files)
       IN /\ image_embeddings' = r.table
          /\ next_id' = r.next_id
          /\ ingest_seen' = [ingest_seen EXCEPT !.op = "generated",
                                                !.encoded = r.encoded]
    /\ UNCHANGED <<images, store_call, last_store, n_stores, cleanup>>
    /\ UNCHANGED <<mgrVars, searchVars, standaloneVars>>

\* migrate_embeddings.py, the loop over the members of one cache file: a member
\* whose image has no row is passed over, the others are stored under the key
\* of the file; an exception ends the loop of this file
RECURSIVE MigrateFile(_, _, _, _, _)
MigrateFile(entries, imgs, table, nid, name) ==
    IF entries = <<>> THEN [table |-> table, next_id |-> nid]
    ELSE LET e == Head(entries)
         IN IF e.image_id \notin imgs
            THEN MigrateFile(Tail(entries), imgs, table, nid, name)
            ELSE LET r == StoreEmbedding(imgs, table, nid, e.image_id,
                                         MigrationModelName(name), e.embedding,
                                         "migrated_from_cache")
                 IN IF r.ok THEN MigrateFile(Tail(entries), imgs, r.table, r.next_id, name)
                    ELSE [table |-> table, next_id |-> nid]

\* the loop over cache_files.items(); a file that does not exist is passed over
RECURSIVE MigrateFiles(_, _, _, _, _)
MigrateFiles(todo, caches, imgs, table, nid) ==
    IF todo = <<>> THEN [table |-> table, next_id |-> nid]
    ELSE LET name == Head(todo)
             r == IF caches[name].exists
                  THEN MigrateFile(FromCacheData(caches[name].data), imgs, table, nid, name)
                  ELSE [table |-> table, next_id |-> nid]
         IN MigrateFiles(Tail(todo), caches, imgs, r.table, r.next_id)

\* the order of the keys of cache_files
MigrationOrder == <<"clip", "eva02">>

\* migrate_embeddings(): `async with get_async_session()` (its exception ends the
\* script), an image row for every file of the directory that has none, then
\* the cache files
MigrateEmbeddings(session_ok, imgs, table, nid, files, caches) ==
    IF ~session_ok THEN [images |-> imgs, table |-> table, next_id |-> nid, ok |-> FALSE]
    ELSE LET imgs2 == imgs \cup files
             r == MigrateFiles(MigrationOrder, caches, imgs2, table, nid)
         IN [images |-> imgs2, table |-> r.table, next_id |-> r.next_id, ok |-> TRUE]

\* the cache files a migration may find
MigrationCaches ==
    LET Files == {NoFile} \cup
                 {SavedFile(ComputeAll(<<>>, l, {})) :
                    l \in UNION {ListDir(S) : S \in SUBSET ImageIds}}
    IN [ModelNames -> Files]

\* one run of the script migrate_embeddings.py
migrate_embeddings(caches) ==
    /\ ingest_seen.op \in {"none", "migrate"}
    /\ ingest_seen.runs < MaxMigrations
    /\ LET r == MigrateEmbeddings(AsyncWithSession, images, image_embeddings, next_id,
                                  image_files, caches)
       IN /\ images' = r.images
          /\ image_embeddings' = r.table
          /\ next_id' = r.next_id
          /\ ingest_seen' = [NotIngested EXCEPT !.op = "migrate",
                                                !.status = IF r.ok THEN 0 ELSE 1,
                                                !.runs = ingest_seen.runs + 1]
    /\ UNCHANGED <<store_call, last_store, n_stores, cleanup>>
    /\ UNCHANGED <<mgrVars, searchVars, standaloneVars>>

\* ------------------------------------------------------------ specification
\* the tables a primary store can hold: at most MaxRows rows, one per (image, model)
\* a table without the unique index: any rows
RowsForAnyPairs(ids) ==
    [ids -> [image_id : ImageIds, model_name : StoredNames,
             model_version : {"model_info"}, embedding : Vecs]]

RowsFor(ids) ==
    {r \in [ids -> [image_id : ImageIds, model_name : StoredNames,
                    model_version : {"model_info"}, embedding : Vecs]] :
        \A a, b \in ids : a # b => <<r[a].image_id, r[a].model_name>>
                                     # <<r[b].image_id, r[b].model_name>>}
\* the version of a stored row: get_model_info() under a manager's name,
\* the batch generator's "v1.0" under a name only the scripts use
TableVersion(name) ==
    IF name \in {ManagerModelName(m) : m \in ModelNames} THEN "model_info" ELSE "v1.0"

Tables ==
    UNION {{[n \in 1..len |-> NewRow(n, r[n].image_id, r[n].model_name,
                                     TableVersion(r[n].model_name), r[n].embedding)] :
                r \in RowsFor(1..len)} : len \in 0..MaxRows}

\* the store before any image is ingested; no server is running
InitStore ==
    /\ images = {}
    /\ image_embeddings = <<>>
    /\ next_id = 1
    /\ store_call = [w \in Writers |-> IdleStore]
    /\ last_store = NoStore
    /\ n_stores = 0
    /\ cleanup = 0
    /\ ingest_seen = NotIngested
    /\ is_loaded = [m \in ModelNames |-> FALSE]
    /\ cache = [m \in ModelNames |-> <<>>]
    /\ image_files = {}
    /\ cache_file = [m \in ModelNames |-> NoFile]
    /\ server = "down"
    /\ recompute_tasks = {}
    /\ load_seen = [m \in ModelNames |-> "none"]
    /\ SearchInit
    /\ StandaloneInit

NextStore ==
    \/ \E i \in ImageIds : create_image(i)
    \/ \E w \in Writers, i \in ImageIds, m \in ModelNames, v \in StoreVecs, ver \in Versions :
         store_embedding_select(w, i, WriterModelName(ver, m), v, ver)
    \/ \E w \in Writers : store_embedding_write(w)
    \/ \E i \in ImageIds, m \in ModelNames : process_image(i, GeneratorModelName(m))
    \/ \E i \in ImageIds : cleanup_delete_embeddings(i)
    \/ cleanup_delete_image

SpecStore == InitStore /\ [][NextStore]_vars

\* the unified server over a store that holds images and rows, with some image
\* files in the directory: uploads, background generation and the migration
InitIngest ==
    /\ images \in SUBSET ImageIds
    /\ image_embeddings \in {t \in Tables : \A n \in 1..Len(t) : t[n].image_id \in images}
    /\ next_id = Len(image_embeddings) + 1
    /\ store_call = [w \in Writers |-> IdleStore]
    /\ last_store = NoStore
    /\ n_stores = 0
    /\ cleanup = 0
    /\ ingest_seen = NotIngested
    /\ is_loaded = [m \in ModelNames |-> TRUE]
    /\ cache = [m \in ModelNames |-> <<>>]
    /\ image_files \in SUBSET ImageIds
    /\ cache_file = [m \in ModelNames |-> NoFile]
    /\ server = "up"
    /\ recompute_tasks = {}
    /\ load_seen = [m \in ModelNames |-> "none"]
    /\ SearchInit
    /\ StandaloneInit

NextIngest ==
    \/ \E models \in SUBSET RequestModels : upload_image(models)
    \/ \E m \in RequestModels, force \in BOOLEAN : generate_embeddings_for_model(m, force)
    \/ generate_embeddings
    \/ \E caches \in MigrationCaches : migrate_embeddings(caches)

SpecIngest == InitIngest /\ [][NextIngest]_vars

\* the server after lifespan's startup: every manager has loaded its model and
\* computed its dict over the image directory (one listing; the images of
\* `failed` could not be encoded), and the primary store holds some table
Init ==
    /\ images = ImageIds
    /\ image_embeddings \in Tables
    /\ next_id = Len(image_embeddings) + 1
    /\ store_call = [w \in Writers |-> IdleStore]
    /\ last_store = NoStore
    /\ n_stores = 0
    /\ cleanup = 0
    /\ ingest_seen = NotIngested
    /\ is_loaded = [m \in ModelNames |-> TRUE]
    /\ \E files \in Listings, failed \in SUBSET ImageIds :
         cache = [m \in ModelNames |-> ComputeAll(<<>>, files, failed)]
    /\ image_files = ImageIds
    /\ cache_file = [m \in ModelNames |-> SavedFile(cache[m])]
    /\ server = "up"
    /\ recompute_tasks = {}
    /\ load_seen = [m \in ModelNames |-> "none"]
    /\ SearchInit
    /\ StandaloneInit

Next ==
    \/ \E m \in RequestModels, q \in RequestQueries, k \in TopKs :
         search_with_model(m, q, k)
    \/ search_encode
    \/ primary_begin
    \/ primary_end
    \/ remote_begin
    \/ remote_end
    \/ remote_never_answers
    \/ cache_begin
    \/ cache_end
    \/ search_respond
    \/ \E m \in ModelNames, q \in Queries, k \in TopKs : vector_similarity_search(m, q, k)
    \/ call_over

Spec == Init /\ [][Next]_vars

\* one server with an empty store, its calls scheduled fairly: a step that can be
\* taken is taken
InitLive ==
    /\ Init
    /\ image_embeddings = <<>>
SpecLive == InitLive /\ [][Next]_vars /\ WF_vars(Next)

\* the unified server from before its startup, with an empty primary store; a
\* manager's cache file may be left from an earlier run
StaleFile == SavedFile(<<[image_id |-> 1, embedding |-> ImageVec(1)]>>)
InitCache ==
    /\ images = {}
    /\ image_embeddings = <<>>
    /\ next_id = 1
    /\ store_call = [w \in Writers |-> IdleStore]
    /\ last_store = NoStore
    /\ n_stores = 0
    /\ cleanup = 0
    /\ ingest_seen = NotIngested
    /\ is_loaded = [m \in ModelNames |-> FALSE]
    /\ cache = [m \in ModelNames |-> <<>>]
    /\ image_files \in SUBSET ImageIds
    /\ cache_file \in [ModelNames -> {NoFile, StaleFile}]
    /\ server = "down"
    /\ recompute_tasks = {}
    /\ load_seen = [m \in ModelNames |-> "none"]
    /\ SearchInit
    /\ StandaloneInit

NextCache ==
    \/ \E i \in ImageIds : add_image_file(i)
    \/ \E i \in ImageIds : remove_image_file(i)
    \/ lifespan
    \/ \E m \in RequestModels : model_health_check(m)
    \/ \E m \in RequestModels : recompute_model_embeddings(m)
    \/ \E m \in ModelNames : recompute_embeddings(m)
    \/ \E m \in RequestModels, q \in RequestQueries, k \in TopKs :
         search_with_model(m, q, k)
    \/ search_encode
    \/ primary_begin
    \/ primary_end
    \/ remote_begin
    \/ remote_end
    \/ cache_begin
    \/ cache_end
    \/ search_respond
    \/ call_over

SpecCache == InitCache /\ [][NextCache]_vars

\* the recompute endpoints and the background tasks. A response is always followed
\* by the end of its request, and a background task is run by the event loop once
\* its response has been sent, however many requests arrive
NextRecompute ==
    \/ \E i \in ImageIds : add_image_file(i)
    \/ \E i \in ImageIds : remove_image_file(i)
    \/ lifespan
    \/ \E m \in RequestModels : recompute_model_embeddings(m)
    \/ recompute_all
    \/ \E m \in ModelNames : recompute_embeddings(m)
    \/ call_over

SpecRecompute ==
    /\ InitCache
    /\ [][NextRecompute]_vars
    /\ WF_vars(call_over)
    /\ \A m \in ModelNames : SF_vars(recompute_embeddings(m))

\* the standalone CLIP server from before its start
InitStandalone ==
    /\ images = {}
    /\ image_embeddings = <<>>
    /\ next_id = 1
    /\ store_call = [w \in Writers |-> IdleStore]
    /\ last_store = NoStore
    /\ n_stores = 0
    /\ cleanup = 0
    /\ ingest_seen = NotIngested
    /\ is_loaded = [m \in ModelNames |-> FALSE]
    /\ cache = [m \in ModelNames |-> <<>>]
    /\ image_files \in SUBSET ImageIds
    /\ cache_file = [m \in ModelNames |-> NoFile]
    /\ server = "down"
    /\ recompute_tasks = {}
    /\ load_seen = [m \in ModelNames |-> "none"]
    /\ SearchInit
    /\ StandaloneInit

NextStandalone ==
    \/ \E i \in ImageIds : add_image_file(i)
    \/ \E i \in ImageIds : remove_image_file(i)
    \/ clip_load_image_embeddings
    \/ clip_recompute_embeddings
    \/ clip_compute_step
    \/ clip_compute_save
    \/ \E q \in RequestQueries, k \in TopKs : search(q, k)

SpecStandalone == InitStandalone /\ [][NextStandalone]_vars

\* ------------------------------------------------------------------ claims
Ended == s_pc \in {"done", "responded"}
SearchEnded == s_entry = "search" /\ Ended
CallRows ==
    ModelRows(image_embeddings, images,
              IF s_entry = "search" THEN ManagerModelName(s_model) ELSE s_model)
CallQuery == TextVec(s_query)

\* C1: within one search call the tiers are attempted in the order primary, remote,
\* cache: the remote tier only after the primary tier ended in an error, the cache
\* tier only after the remote tier ended in an error, each tier at most once, and
\* never two tiers in progress at once.
C1_TiersInOrder ==
    s_entry = "search" =>
        /\ \A a, b \in 1..Len(s_order) : a # b => s_order[a] # s_order[b]
        /\ Cardinality({t \in Tiers : s_tier[t] = "running"}) <= 1
        /\ (s_tier["remote"] # "idle" => s_tier["primary"] = "error")
        /\ (s_tier["cache"] # "idle" => s_tier["remote"] = "error")

\* C2: when the primary tier and the remote tier have both ended in an error and the
\* model's dict holds at least one entry, the search returns the ranked entries of
\* the dict (for k >= 1: not an empty list, not an error).
C2_CacheAnswersAfterTwoErrors ==
    (/\ SearchEnded
     /\ s_tier["primary"] = "error"
     /\ s_tier["remote"] = "error"
     /\ cache[s_model] # <<>>
     /\ ~FileSearchRaises(cache[s_model], CallQuery)
     /\ s_top_k >= 1)
    => /\ s_outcome = "return"
       /\ s_result # <<>>
       /\ s_result = FileSearch(cache[s_model], CallQuery, s_top_k)

\* C3: a search call in which every tier fails (the primary tier and the remote tier
\* have ended in an error and the cache tier has not answered) raises one error to
\* its caller; it does not return a list, so an outage is not an empty result.
C3_TotalOutageRaises ==
    (/\ SearchEnded
     /\ s_tier["primary"] = "error"
     /\ s_tier["remote"] = "error"
     /\ s_tier["cache"] # "ok")
    => s_outcome = "raise"

\* C4: when the primary or the remote tier answers successfully and the store holds
\* no row of the requested model, the call ends with an empty list, without an
\* error, and no later tier is consulted.
LaterTiers(t) == IF t = "primary" THEN {"remote", "cache"} ELSE {"cache"}
C4_EmptySuccessEndsSearch ==
    \A t \in {"primary", "remote"} :
        (s_pc # "idle" /\ s_tier[t] = "ok" /\ CallRows = <<>>)
        => /\ Ended
           /\ s_result = <<>>
           /\ s_outcome = "return"
           /\ \A u \in LaterTiers(t) : s_tier[u] = "idle"

C4_Witness ==
    /\ s_entry = "search"
    /\ s_pc = "responded"
    /\ s_tier["remote"] = "ok"
    /\ CallRows = <<>>
    /\ image_embeddings # <<>>
    /\ cache[s_model] # <<>>

C6_SecondStoreOverwrites ==
    [][(last_store' # last_store /\ last_store'.result \in {"stored", "updated"}) =>
        LET rows == RowsOf(image_embeddings', last_store'.image_id,
                           last_store'.model_name)
        IN /\ Cardinality(rows) = 1
           /\ \A n \in rows :
                /\ image_embeddings'[n].embedding = last_store'.embedding
                /\ image_embeddings'[n].embedding_dim = Len(last_store'.embedding)
                /\ image_embeddings'[n].model_version = last_store'.model_version]_vars

C6_Witness ==
    /\ last_store.result = "updated"
    /\ last_store.embedding = <<0, 5, 0>>
    /\ last_store.model_version = "migrated_from_cache"
    /\ Len(image_embeddings) = 1
    /\ image_embeddings[1].embedding = <<0, 5, 0>>

\* C7: in every state of the primary store, whatever the interleaving of the
\* store_embedding calls and of the batch generator's inserts, there is at most one
\* embedding row per (image, model) pair.
C7_OneRowPerPair ==
    \A i \in ImageIds, m \in StoredNames : Cardinality(RowsOf(image_embeddings, i, m)) <= 1

C7_Witness ==
    /\ last_store.result = "IntegrityError"
    /\ RowsOf(image_embeddings, last_store.image_id, last_store.model_name) # {}

\* C8: once a model has a stored vector of dimension D, a store call for that model
\* with a vector of another length is rejected and changes no row: all rows of a
\* model have the same dimension.
C8_DimensionMismatchRejected ==
    \A a, b \in 1..Len(image_embeddings) :
        image_embeddings[a].model_name = image_embeddings[b].model_name
        => image_embeddings[a].embedding_dim = image_embeddings[b].embedding_dim

\* C9: when the primary tier has failed and the remote tier (or the cache tier,
\* holding the same (key, vector) data) answers, the call returns the same set of
\* (key, score) pairs the primary tier returns for that data, query and k.
PrimaryWouldReturn(rows, q, k) ==
    {x.results : x \in {y \in UNION {VectorSimilaritySearch(rows, q, k, Threshold, ok, TRUE) :
                                        ok \in BOOLEAN} : ~y.raised}}
SameData(entries, rows) ==
    {<<entries[n].image_id, entries[n].embedding>> : n \in 1..Len(entries)}
        = {<<rows[n].image_id, rows[n].embedding>> : n \in 1..Len(rows)}
C9_FallbackEquivalence ==
    (/\ SearchEnded
     /\ PrimaryWouldReturn(CallRows, CallQuery, s_top_k) # {}
     /\ \/ s_tier["remote"] = "ok"
        \/ s_tier["cache"] = "ok" /\ SameData(cache[s_model], CallRows))
    => \E r \in PrimaryWouldReturn(CallRows, CallQuery, s_top_k) :
            Pairs(s_result) = Pairs(r)

Available(t) == IF t = "cache" THEN Len(cache[s_model]) ELSE Len(CallRows)

\* C10: for every k >= 0 and every tier that answers, the call returns at most k
\* results, and all the vectors of the model when k is greater than their number.
C10_AtMostKOrAll ==
    \A t \in Tiers :
        (Ended /\ s_tier[t] = "ok" /\ s_top_k >= 0)
        => /\ Len(s_result) <= s_top_k
           /\ (s_top_k > Available(t) => Len(s_result) = Available(t))

Answered == Ended /\ s_outcome = "return"

\* C11: every result list is in descending order of similarity, and two results of
\* equal similarity are in ascending order of their key.
C11_DescendingWithKeyTieBreak ==
    Answered =>
        \A n \in 1..(Len(s_result) - 1) :
            \/ s_result[n].similarity > s_result[n + 1].similarity
            \/ /\ s_result[n].similarity = s_result[n + 1].similarity
               /\ s_result[n].image <= s_result[n + 1].image

\* C12: for every top_k <= 0, negative values included, the result list is empty.
C12_NonPositiveKGivesEmpty ==
    (Answered /\ s_top_k <= 0) => s_result = <<>>

\* C13: no result list holds the same image key twice, whichever tier answered.
C13_NoDuplicateKeys ==
    Answered =>
        \A a, b \in 1..Len(s_result) : a # b => s_result[a].image # s_result[b].image

C13_Witness ==
    /\ SearchEnded
    /\ s_tier["remote"] = "ok"
    /\ Len(s_result) = 2
    /\ s_result[1].similarity = s_result[2].similarity

\* C17: when the text encoder fails during a search, the search raises to its caller
\* and returns no list.
EncoderFailed == s_text_embedding = <<>>
C17_EncoderFailurePropagates ==
    (SearchEnded /\ s_tier # NoTiers /\ EncoderFailed) => s_outcome = "raise"

\* C20: every vector in the primary store has unit L2 norm.
IsUnit(v) == Dot(v, v) = 25
C20_StoredVectorsAreUnit ==
    \A n \in 1..Len(image_embeddings) : IsUnit(image_embeddings[n].embedding)

\* C14: after a recompute of the standalone server has completed, its cache holds no
\* entry for an image that was not in the image directory when the recompute began.
C14_RecomputeDiscardsStale ==
    (clip_rebuild.pc = "idle" /\ clip_rebuild.recomputed)
    => Keys(clip_embeddings) \subseteq clip_rebuild.listed

\* C15: a search that runs while a rebuild of the cache is in progress ranks either
\* the complete cache from before the rebuild or the complete cache from after it.
C15_NoHalfRebuiltCache ==
    (clip_seen.searched /\ clip_seen.during)
    => clip_seen.ranked \in {clip_seen.before, clip_seen.after}

\* C16: a search, health or recompute request that names a model that is not
\* registered is answered 404 at once, no encoder or tier is invoked, and no store,
\* cache or registry entry changes.
C16_UnknownModelNotFound ==
    [][(s_pc = "idle" /\ s_pc' # "idle" /\ s_model' \notin model_managers)
       => /\ s_pc' = "responded"
          /\ http_status' = 404
          /\ s_tier' = NoTiers
          /\ s_text_embedding' = <<>>
          /\ UNCHANGED <<storeVars, mgrVars, standaloneVars>>]_vars

C16_Witness ==
    /\ s_pc = "responded"
    /\ s_entry = "recompute"
    /\ s_model = "siglip"
    /\ http_status = 404
    /\ recompute_tasks # {}

\* C18: when at startup some manager has loaded its model, the server is up,
\* whatever happened to the other managers.
C18_PartialStartupServes ==
    (server # "down" /\ \E m \in ModelNames : is_loaded[m]) => server = "up"

\* C19: every search call terminates: it is answered even when a tier never
\* responds.
C19_SearchTerminates == (s_entry = "search") ~> (s_pc = "responded")

\* res is exactly the k best of cands (all of them if fewer than k)
IsTopK(res, cands, k) ==
    /\ Len(res) = Min(k, Len(cands))
    /\ Cardinality(Range(res)) = Len(res)
    /\ Range(res) \subseteq Range(cands)
    /\ \A c \in Range(cands) \ Range(res) :
         \A r \in Range(res) : r.similarity >= c.similarity

RankedBy(t) == IF t = "cache" THEN cache[s_model] ELSE CallRows
AllFit(t) == \A n \in 1..Len(RankedBy(t)) : DotDefined(CallQuery, RankedBy(t)[n].embedding)

\* C22: for every k >= 0, the ranking step of the primary tier (client-side) and of
\* the cache tier gives each candidate the score dot(query, vector) and returns
\* exactly the k candidates of highest score, all of them if there are fewer than k.
C22_RankingReturnsTopK ==
    \A t \in {"primary", "cache"} :
        (/\ Ended /\ s_tier[t] = "ok" /\ s_top_k >= 0 /\ AllFit(t)
         /\ t = "primary" => s_sql = "error")
        => IsTopK(s_result, Scored(RankedBy(t), CallQuery, Dot), s_top_k)

\* C24: when the SQL statement of the primary tier errors and the fetch of the
\* model's rows succeeds, the primary tier answers with the rows ranked in Python,
\* and the answer is one the SQL statement gives for the same rows, query, k and
\* threshold.
C24_ClientSideRankingAnswers ==
    (/\ s_entry = "vector_similarity_search" /\ Ended
     /\ s_sql = "error" /\ "primary" \notin s_down /\ s_top_k >= 0)
    => /\ s_tier["primary"] = "ok"
       /\ s_result \in SqlSearch(CallRows, CallQuery, s_top_k, Threshold)

\* C25: a pass of compute_image_embeddings over the image directory, whichever
\* images fail to encode, hands every listed image to the encoder, ends with an
\* entry for exactly the images that did not fail beside the entries the dict held
\* before, each with its image's vector, and then writes the dict to the cache file.
C25_FailedImagesAreSkipped ==
    \A m \in ModelNames, failed \in SUBSET image_files :
        \A files \in ListDir(image_files) :
            LET r == ComputeImageEmbeddings(cache[m], cache_file[m], files, failed,
                                            TRUE, TRUE)
            IN /\ r.encoded = image_files
               /\ Keys(r.dict) = Keys(cache[m]) \cup (image_files \ failed)
               /\ \A n \in 1..Len(r.dict) :
                    IF r.dict[n].image_id \in image_files \ failed
                    THEN r.dict[n].embedding = ImageVec(r.dict[n].image_id)
                    ELSE \E k \in 1..Len(cache[m]) : cache[m][k] = r.dict[n]
               /\ r.file = SavedFile(r.dict)

\* a pass that computed, in which one image of two failed, and that saved its dict
C25_Witness ==
    /\ server = "up"
    /\ load_seen["clip"] = "computed"
    /\ image_files = {1, 2}
    /\ Keys(cache["clip"]) = {2}
    /\ cache_file["clip"] = SavedFile(cache["clip"])

SameManager(o) ==
    /\ cache'[o] = cache[o]
    /\ cache_file'[o] = cache_file[o]
    /\ is_loaded'[o] = is_loaded[o]

\* C26: a recompute of one manager leaves the dict, the cache file and the loaded
\* flag of every other manager unchanged and runs between two requests, never
\* inside a search; and the loads of startup leave the dict and the cache file of
\* a manager whose own load did not run unchanged.
C26_OnlyOwnCacheChanges ==
    [][/\ \A m \in ModelNames :
            (m \in recompute_tasks /\ m \notin recompute_tasks')
            => /\ \A o \in ModelNames \ {m} : SameManager(o)
               /\ s_pc = "idle"
       /\ (server = "down" /\ server' # "down")
            => \A o \in ModelNames :
                  ~is_loaded'[o] => (cache'[o] = cache[o] /\ cache_file'[o] = cache_file[o])
      ]_vars

\* one manager has recomputed (its dump failed), the other still holds the
\* different dict it read at startup
C26_Witness ==
    /\ server = "up"
    /\ load_seen["clip"] = "computed"
    /\ cache_file["clip"] = NoFile
    /\ cache["clip"] # <<>>
    /\ load_seen["eva02"] = "read"
    /\ cache["eva02"] # <<>>
    /\ cache["clip"] # cache["eva02"]
    /\ recompute_tasks = {}
    /\ s_entry = "none"
    /\ http_status = 0

\* C28: no step of a search call, whichever tier answers and whether the call
\* returns or raises, changes the image rows, the embedding rows, a manager's dict
\* or a cache file.
C28_SearchIsReadOnly ==
    [][(s_entry = "search" \/ s_entry' = "search")
       => UNCHANGED <<images, image_embeddings, cache, cache_file>>]_vars

\* a search the cache tier answered with results
C28_Witness ==
    /\ SearchEnded
    /\ s_tier["cache"] = "ok"
    /\ s_result # <<>>
    /\ http_status = 200

Started(m) ==
    /\ s_pc = "responded"
    /\ http_status = 200
    /\ \/ s_entry = "recompute" /\ s_model = m
       \/ s_entry = "recompute_all"

\* C21: when a recompute request for a registered model has its "started"
\* response, the recompute has not run yet (its background task is pending), and
\* the task eventually runs to its end, leaving the manager with the dict the pass
\* over the image directory built.
C21_RecomputeRunsInBackground ==
    \A m \in ModelNames :
        /\ [](Started(m) => m \in recompute_tasks)
        /\ Started(m) ~> (m \notin recompute_tasks
                          /\ load_seen[m] \in {"computed", "no directory"})

\* the "started" response of a recompute of one model, the task still to run
C21_Witness ==
    /\ s_entry = "recompute"
    /\ s_model = "clip"
    /\ s_pc = "responded"
    /\ http_status = 200
    /\ "clip" \in recompute_tasks
    /\ load_seen["clip"] = "read"

C30_BlankQueryIs400 ==
    clip_seen.blank => (clip_seen.status = 400 /\ ~clip_seen.encoded)

\* the names under which the writers store the embeddings of the model with key m
WriterNames(m) == {ManagerModelName(m), GeneratorModelName(m), MigrationModelName(m)}

\* C32: every writer stores the embeddings of a registered model under the name
\* the manager's search queries the store with: when a tier of a search has read
\* the store, every row a writer stored for the searched model is a candidate.
C32_WritersAndSearchAgreeOnName ==
    (SearchEnded /\ s_tier["remote"] = "ok")
    => \A n \in 1..Len(image_embeddings) :
          (/\ image_embeddings[n].model_name \in WriterNames(s_model)
           /\ image_embeddings[n].image_id \in images)
          => \E k \in 1..Len(CallRows) : CallRows[k] = image_embeddings[n]

\* C23: a store call for an (image, model) pair never fails as a duplicate insert
\* because of another store call: when two store calls race for a pair that has no
\* row, the second is applied as an update. (A duplicate can only be met after the
\* batch generator inserted the pair's row, which carries its version "v1.0".)
C23_ConcurrentStoresBothSucceed ==
    last_store.result = "IntegrityError" =>
        \E n \in RowsOf(image_embeddings, last_store.image_id, last_store.model_name) :
            image_embeddings[n].model_version = "v1.0"

\* C27: in every state each embedding row refers to an existing image row.
C27_EmbeddingsHaveTheirImage ==
    \A n \in 1..Len(image_embeddings) : image_embeddings[n].image_id \in images

C27_Witness ==
    /\ images = {}
    /\ image_embeddings = <<>>
    /\ next_id > 1
    /\ cleanup = 0
    /\ last_store.result = "stored"

C35_MigrationIsIdempotent ==
    \A session_ok \in BOOLEAN, caches \in MigrationCaches :
       LET a == MigrateEmbeddings(session_ok, images, image_embeddings, next_id,
                                  image_files, caches)
           b == MigrateEmbeddings(session_ok, a.images, a.table, a.next_id,
                                  image_files, caches)
       IN b.images = a.images /\ b.table = a.table

C35_Witness ==
    /\ ingest_seen.op = "migrate"
    /\ ingest_seen.runs = 2
    /\ image_files # {}
    /\ image_embeddings # <<>>

====
